---- MODULE Spec2Model ----
(***************************************************************************)
(* Model of overloaded_literals (src/overloaded_literals/src/lib.rs).      *)
(*                                                                         *)
(* A literal site is rewritten into `FromLiteralX::<LIT>::into_self()`.    *)
(* The associated constant VALID_LITERAL of the selected conformance is    *)
(* evaluated at compile time (a panic there aborts the build); into_self() *)
(* runs at run time and builds the value from VALID_LITERAL.               *)
(*                                                                         *)
(* Integer widths.  TLC's integers are 32 bits wide, so the 128-bit        *)
(* literal types u128/i128 are modelled with LitBits bits, and the widths  *)
(* of the target types keep their order below it: the 8-bit types keep     *)
(* their real width, 16/32/64/pointer-sized become 9/10/11/11 bits and the *)
(* 128-bit types have exactly LitBits bits (as wide as the literal type).  *)
(* Every cast (`as u128`, `as i128`, `as $type`) wraps modulo 2^width as   *)
(* the Rust cast does.                                                     *)
(***************************************************************************)
EXTENDS Integers, Sequences, FiniteSets, TLC

VARIABLES
    target,      \* the target type of the literal site
    contract,    \* "unsigned" | "signed" | "str": the trait the site names
    lit,         \* the const generic LIT of an integer site (0 at a str site)
    tstr,        \* the TypeStr type parameter of a str site (TNil otherwise)
    phase,       \* "rewritten" | "validated" | "failed" | "constructed"
    valid,       \* VALID_LITERAL of an integer conformance
    valid_str,   \* VALID_LITERAL of a str conformance
    msg,         \* the compile error, "" when there is none
    raw,         \* the value narrowed with `as $type` / `as $orig_type`
    value,       \* the run-time value into_self() returned
    lhs, rhs,    \* const_str_eq: the two arguments
    len, index,  \* const_str_eq: the locals `len` and `index`
    pc,          \* const_str_eq: "idle" | "entry" | "loop" | "done"
    result,      \* const_str_eq: the returned bool
    reads,       \* const_str_eq: the indices read so far, in order
    oob          \* const_str_eq: an index was used outside a byte slice

callvars == <<target, contract, lit, tstr, phase, valid, valid_str, msg, raw, value>>
eqvars == <<lhs, rhs, len, index, pc, result, reads, oob>>
vars == <<target, contract, lit, tstr, phase, valid, valid_str, msg, raw, value,
          lhs, rhs, len, index, pc, result, reads, oob>>

----------------------------------------------------------------------------
(* Bounds *)

\* Width of the literal types u128 / i128 in the model (stands for 128).
LitBits == 12
\* Longest string over Alphabet that is enumerated exhaustively.
MaxStrLen == 2

----------------------------------------------------------------------------
(* Integer target types *)

PlainUnsigned == {"u8", "u16", "u32", "u64", "u128", "usize"}
PlainSigned == {"i8", "i16", "i32", "i64", "i128", "isize"}
NonZeroUnsigned == {"NonZeroU8", "NonZeroU16", "NonZeroU32", "NonZeroU64",
                    "NonZeroU128", "NonZeroUsize"}
NonZeroSigned == {"NonZeroI8", "NonZeroI16", "NonZeroI32", "NonZeroI64",
                  "NonZeroI128", "NonZeroIsize"}
IntTypes == PlainUnsigned \cup PlainSigned \cup NonZeroUnsigned \cup NonZeroSigned

\* The second macro argument $orig_type of the nonzero impls.
orig_type(t) ==
    CASE t \in {"NonZeroU8"} -> "u8"
      [] t \in {"NonZeroU16"} -> "u16"
      [] t \in {"NonZeroU32"} -> "u32"
      [] t \in {"NonZeroU64"} -> "u64"
      [] t \in {"NonZeroU128"} -> "u128"
      [] t \in {"NonZeroUsize"} -> "usize"
      [] t \in {"NonZeroI8"} -> "i8"
      [] t \in {"NonZeroI16"} -> "i16"
      [] t \in {"NonZeroI32"} -> "i32"
      [] t \in {"NonZeroI64"} -> "i64"
      [] t \in {"NonZeroI128"} -> "i128"
      [] t \in {"NonZeroIsize"} -> "isize"
      [] OTHER -> t

\* Width in bits of a primitive integer type (scaled, see the header).
Width(t) ==
    CASE t \in {"u8", "i8"} -> 8
      [] t \in {"u16", "i16"} -> 9
      [] t \in {"u32", "i32"} -> 10
      [] t \in {"u64", "i64", "usize", "isize"} -> 11
      [] t \in {"u128", "i128"} -> LitBits

IsSigned(t) == t \in PlainSigned

\* <$type>::MIN and <$type>::MAX of a primitive integer type.
MIN(t) == IF IsSigned(t) THEN -(2 ^ (Width(t) - 1)) ELSE 0
MAX(t) == IF IsSigned(t) THEN 2 ^ (Width(t) - 1) - 1 ELSE 2 ^ Width(t) - 1

\* `x as u128`: wraps modulo 2^128 (sign extension of a negative value).
as_u128(x) == x % (2 ^ LitBits)
\* `x as i128`: wraps into the two's complement range of the literal type.
as_i128(x) == ((x + 2 ^ (LitBits - 1)) % (2 ^ LitBits)) - 2 ^ (LitBits - 1)
\* `x as $type` for a primitive integer type: truncation to Width(t) bits.
as_type(x, t) ==
    IF IsSigned(t)
    THEN ((x + 2 ^ (Width(t) - 1)) % (2 ^ Width(t))) - 2 ^ (Width(t) - 1)
    ELSE x % (2 ^ Width(t))

\* The values of the const generics: `const LIT: u128` and `const LIT: i128`.
U128 == 0 .. (2 ^ LitBits - 1)
I128 == (-(2 ^ (LitBits - 1))) .. (2 ^ (LitBits - 1) - 1)

----------------------------------------------------------------------------
(* Outcome of a constant evaluation: a value, or a panic aborting the build *)

Ok(v) == [ok |-> TRUE, val |-> v, msg |-> ""]
Panic(m) == [ok |-> FALSE, val |-> 0, msg |-> m]
PanicStr(m) == [ok |-> FALSE, val |-> <<>>, msg |-> m]

----------------------------------------------------------------------------
(* Integer conformances: the four impl macros *)

\* Seeded fault: the upper bound compared with >= instead of >.
unsigned_impl_VALID_LITERAL_ge(t, LIT) ==
    LET min == as_u128(MIN(t))
        max == as_u128(MAX(t))
    IN  IF LIT < min \/ LIT >= max
        THEN Panic("Out of range integer literal")
        ELSE Ok(LIT)

\* unsigned_impl!: `const VALID_LITERAL: u128` of `impl FromLiteralUnsigned<LIT> for $type`.
unsigned_impl_VALID_LITERAL(t, LIT) ==
    LET min == as_u128(MIN(t))
        max == as_u128(MAX(t))
    IN  IF LIT < min \/ LIT > max
        THEN Panic("Out of range integer literal")
        ELSE Ok(LIT)

\* unsigned_impl!: into_self, `VALID_LITERAL as $type`.
unsigned_impl_into_self(t, VALID) == as_type(VALID, t)

\* Seeded fault: the lower bound is not checked.
signed_impl_VALID_LITERAL_nomin(t, LIT) ==
    LET max == as_i128(MAX(t))
    IN  IF LIT > max
        THEN Panic("Out of range integer literal")
        ELSE Ok(LIT)

\* signed_impl!: `const VALID_LITERAL: i128` of `impl FromLiteralSigned<LIT> for $type`.
signed_impl_VALID_LITERAL(t, LIT) ==
    LET min == as_i128(MIN(t))
        max == as_i128(MAX(t))
    IN  IF LIT < min \/ LIT > max
        THEN Panic("Out of range integer literal")
        ELSE Ok(LIT)

\* signed_impl!: into_self, `VALID_LITERAL as $type`.
signed_impl_into_self(t, VALID) == as_type(VALID, t)

\* Seeded fault: the zero check is missing.
nonzero_unsigned_impl_VALID_LITERAL_nozero(t, LIT) ==
    LET max == as_u128(MAX(orig_type(t)))
    IN  IF LIT > max
        THEN Panic("Out of range NonZero integer literal")
        ELSE Ok(LIT)

\* nonzero_unsigned_impl!: VALID_LITERAL; the zero check comes first, no lower bound.
nonzero_unsigned_impl_VALID_LITERAL(t, LIT) ==
    LET max == as_u128(MAX(orig_type(t)))
    IN  IF LIT = 0
        THEN Panic("NonZero integer literal was 0")
        ELSE IF LIT > max
             THEN Panic("Out of range NonZero integer literal")
             ELSE Ok(LIT)

\* nonzero_unsigned_impl!: `let raw = VALID_LITERAL as $orig_type`.
nonzero_unsigned_impl_raw(t, VALID) == as_type(VALID, orig_type(t))

\* Seeded fault: the lower bound is not checked.
nonzero_signed_impl_VALID_LITERAL_nomin(t, LIT) ==
    LET max == as_i128(MAX(orig_type(t)))
    IN  IF LIT = 0
        THEN Panic("NonZero integer literal was 0")
        ELSE IF LIT > max
             THEN Panic("Out of range NonZero integer literal")
             ELSE Ok(LIT)

\* nonzero_signed_impl!: VALID_LITERAL; the zero check comes first.
nonzero_signed_impl_VALID_LITERAL(t, LIT) ==
    LET min == as_i128(MIN(orig_type(t)))
        max == as_i128(MAX(orig_type(t)))
    IN  IF LIT = 0
        THEN Panic("NonZero integer literal was 0")
        ELSE IF LIT < min \/ LIT > max
             THEN Panic("Out of range NonZero integer literal")
             ELSE Ok(LIT)

\* nonzero_signed_impl!: `let raw = VALID_LITERAL as $orig_type`.
nonzero_signed_impl_raw(t, VALID) == as_type(VALID, orig_type(t))

\* Run-time values.
NoValue == [kind |-> "none", n |-> 0, s |-> <<>>]
IntValue(n) == [kind |-> "int", n |-> n, s |-> <<>>]

\* `unsafe { <$type>::new_unchecked(raw) }`: the wrapper around raw when raw is
\* not 0; undefined behaviour when it is 0 (any of the listed outcomes).
new_unchecked(r) ==
    IF r # 0
    THEN {[kind |-> "NonZero", n |-> r, s |-> <<>>]}
    ELSE {[kind |-> "UB", n |-> k, s |-> <<>>] : k \in {0, 1}}

\* Seeded fault: signed_impl! invoked for the plain unsigned types as well.
signed_impl_types_with_unsigned == PlainSigned \cup PlainUnsigned

\* The types each macro is invoked for.
unsigned_impl_types == PlainUnsigned \cup PlainSigned
signed_impl_types == PlainSigned
nonzero_unsigned_impl_types == NonZeroUnsigned \cup NonZeroSigned
nonzero_signed_impl_types == NonZeroSigned

----------------------------------------------------------------------------
(* Type-level strings *)

\* type_str::Byte<VAL>, tlist::TNil, tlist::TCons<H, T>.
Byte(VAL) == [byte |-> VAL]
TNil == [tag |-> "TNil"]
TCons(H, T) == [tag |-> "TCons", head |-> H, tail |-> T]

\* TList![Byte<b1>, ..., Byte<bn>]: the nested TCons ending in TNil.
RECURSIVE TList(_)
TList(B) ==
    IF Len(B) = 0 THEN TNil ELSE TCons(Byte(Head(B)), TList(Tail(B)))

\* TypeStr::STR: the projection of a type-level string to its bytes.
RECURSIVE STR(_)
STR(Str) ==
    IF Str.tag = "TNil" THEN <<>> ELSE <<Str.head.byte>> \o STR(Str.tail)

\* The byte strings "hello" and "goodbye".
hello == <<104, 101, 108, 108, 111>>
goodbye == <<103, 111, 111, 100, 98, 121, 101>>

----------------------------------------------------------------------------
(* const_str_eq, statement by statement *)

\* From the entry to the loop head: the length check, then len and index.
const_str_eq_entry(l, r) ==
    IF Len(l) # Len(r)
    THEN [pc |-> "done", result |-> FALSE, len |-> 0, index |-> 0,
          reads |-> <<>>, oob |-> FALSE]
    ELSE [pc |-> "loop", result |-> FALSE, len |-> Len(l), index |-> 0,
          reads |-> <<>>, oob |-> FALSE]

\* Seeded fault: the loop stops one index early (`index + 1 < len`).
const_str_eq_loop_short(l, r, st) ==
    IF st.index + 1 < st.len
    THEN IF st.index >= Len(l) \/ st.index >= Len(r)
         THEN [st EXCEPT !.pc = "done", !.result = FALSE, !.oob = TRUE]
         ELSE IF l[st.index + 1] # r[st.index + 1]
              THEN [st EXCEPT !.pc = "done", !.result = FALSE,
                              !.reads = Append(@, st.index)]
              ELSE [st EXCEPT !.index = @ + 1, !.reads = Append(@, st.index)]
    ELSE [st EXCEPT !.pc = "done", !.result = TRUE]

\* One evaluation of the loop head and, when it is taken, of the loop body.
\* lhs_bytes[index] is l[index + 1]: the slices are indexed from 0.
const_str_eq_loop(l, r, st) ==
    IF st.index < st.len
    THEN IF st.index >= Len(l) \/ st.index >= Len(r)
         THEN [st EXCEPT !.pc = "done", !.result = FALSE, !.oob = TRUE]
         ELSE IF l[st.index + 1] # r[st.index + 1]
              THEN [st EXCEPT !.pc = "done", !.result = FALSE,
                              !.reads = Append(@, st.index)]
              ELSE [st EXCEPT !.index = @ + 1, !.reads = Append(@, st.index)]
    ELSE [st EXCEPT !.pc = "done", !.result = TRUE]

RECURSIVE const_str_eq_run(_, _, _)
const_str_eq_run(l, r, st) ==
    IF st.pc = "done" THEN st ELSE const_str_eq_run(l, r, const_str_eq_loop(l, r, st))

\* const fn const_str_eq(lhs: &str, rhs: &str) -> bool
const_str_eq(l, r) == const_str_eq_run(l, r, const_str_eq_entry(l, r)).result

----------------------------------------------------------------------------
(* String conformances *)

StrValue(s) == [kind |-> "str", n |-> 0, s |-> s]
StringValue(s) == [kind |-> "String", n |-> 0, s |-> s]
GreetingValue(k) == [kind |-> k, n |-> 0, s |-> <<>>]

\* Seeded fault: into_self returns the content with a trailing NUL byte.
str_into_self_nul(VALID) == StrValue(VALID \o <<0>>)

\* impl FromLiteralStr<Str> for &'a str
str_VALID_LITERAL(Str) == Ok(STR(Str))
str_into_self(VALID) == StrValue(VALID)

\* str::to_string: a fresh String holding a copy of every byte.
to_string(s) == [i \in 1 .. Len(s) |-> s[i]]

\* impl FromLiteralStr<Str> for String
String_VALID_LITERAL(Str) == Ok(STR(Str))
String_into_self(VALID) == StringValue(to_string(VALID))

\* Seeded fault: `&&` written for `||`.
Greeting_VALID_LITERAL_and(Str) ==
    LET val == STR(Str)
    IN  IF const_str_eq(val, hello) /\ const_str_eq(val, goodbye)
        THEN Ok(val)
        ELSE PanicStr("Invalid Greeting literal")

\* impl FromLiteralStr<Str> for Greeting: VALID_LITERAL
Greeting_VALID_LITERAL(Str) ==
    LET val == STR(Str)
    IN  IF const_str_eq(val, hello) \/ const_str_eq(val, goodbye)
        THEN Ok(val)
        ELSE PanicStr("Invalid Greeting literal")

\* impl FromLiteralStr<Str> for Greeting: into_self, the match on the string.
Greeting_into_self(VALID) ==
    CASE VALID = hello -> GreetingValue("Hello")
      [] VALID = goodbye -> GreetingValue("Goodbye")
      [] OTHER -> GreetingValue("unreachable")

StrTypes == {"str", "String", "Greeting"}

----------------------------------------------------------------------------
(* Trait resolution *)

\* The build fails when the target type does not implement the trait.
NoImpl == "the trait bound is not satisfied"

\* <target as FromLiteralX<..>>::VALID_LITERAL for the conformance selected.
VALID_LITERAL(t, c, LIT, Str) ==
    CASE c = "unsigned" /\ t \in unsigned_impl_types ->
            unsigned_impl_VALID_LITERAL(t, LIT)
      [] c = "unsigned" /\ t \in nonzero_unsigned_impl_types ->
            nonzero_unsigned_impl_VALID_LITERAL(t, LIT)
      [] c = "signed" /\ t \in signed_impl_types ->
            signed_impl_VALID_LITERAL(t, LIT)
      [] c = "signed" /\ t \in nonzero_signed_impl_types ->
            nonzero_signed_impl_VALID_LITERAL(t, LIT)
      [] c = "str" /\ t = "str" -> str_VALID_LITERAL(Str)
      [] c = "str" /\ t = "String" -> String_VALID_LITERAL(Str)
      [] c = "str" /\ t = "Greeting" -> Greeting_VALID_LITERAL(Str)
      [] OTHER -> IF c = "str" THEN PanicStr(NoImpl) ELSE Panic(NoImpl)

\* <target as FromLiteralX<..>>::into_self(): the outcomes, each with the
\* narrowed value it was built from.
into_self(t, c, VALID, VALID_STR) ==
    CASE c = "unsigned" /\ t \in unsigned_impl_types ->
            LET r == unsigned_impl_into_self(t, VALID)
            IN  {[raw |-> r, value |-> IntValue(r)]}
      [] c = "unsigned" /\ t \in nonzero_unsigned_impl_types ->
            LET r == nonzero_unsigned_impl_raw(t, VALID)
            IN  {[raw |-> r, value |-> v] : v \in new_unchecked(r)}
      [] c = "signed" /\ t \in signed_impl_types ->
            LET r == signed_impl_into_self(t, VALID)
            IN  {[raw |-> r, value |-> IntValue(r)]}
      [] c = "signed" /\ t \in nonzero_signed_impl_types ->
            LET r == nonzero_signed_impl_raw(t, VALID)
            IN  {[raw |-> r, value |-> v] : v \in new_unchecked(r)}
      [] c = "str" /\ t = "str" -> {[raw |-> 0, value |-> str_into_self(VALID_STR)]}
      [] c = "str" /\ t = "String" -> {[raw |-> 0, value |-> String_into_self(VALID_STR)]}
      [] c = "str" /\ t = "Greeting" -> {[raw |-> 0, value |-> Greeting_into_self(VALID_STR)]}
      [] OTHER -> {}

----------------------------------------------------------------------------
(* Inputs *)

Alphabet == {0, 104, 255}
SeqsUpTo(n) == UNION {[1 .. k -> Alphabet] : k \in 0 .. n}
Prefixes(s) == {SubSeq(s, 1, k) : k \in 0 .. Len(s)}
\* s with one byte replaced: by a byte of Alphabet or by its upper-case letter.
Variants(s) == {[s EXCEPT ![i] = b] : i \in 1 .. Len(s), b \in Alphabet} \cup
               {[s EXCEPT ![i] = s[i] - 32] : i \in 1 .. Len(s)}
Extensions(s) == {s \o <<b>> : b \in Alphabet}
StrInputs ==
    SeqsUpTo(MaxStrLen) \cup Prefixes(hello) \cup Prefixes(goodbye) \cup
    Variants(hello) \cup Variants(goodbye) \cup Extensions(hello) \cup Extensions(goodbye)

----------------------------------------------------------------------------
(* The two-phase protocol of one literal site *)

EqIdle ==
    /\ lhs = <<>> /\ rhs = <<>> /\ len = 0 /\ index = 0
    /\ pc = "idle" /\ result = FALSE /\ reads = <<>> /\ oob = FALSE

\* A literal site as the attribute macro rewrites it: the target type, the
\* trait and the literal are fixed; nothing has been evaluated yet.
Init ==
    /\ \/ contract = "unsigned" /\ target \in IntTypes /\ lit \in U128 /\ tstr = TNil
       \/ contract = "signed" /\ target \in IntTypes /\ lit \in I128 /\ tstr = TNil
       \/ contract = "str" /\ target \in StrTypes /\ lit = 0
          /\ tstr \in {TList(B) : B \in StrInputs}
    /\ phase = "rewritten"
    /\ valid = 0 /\ valid_str = <<>> /\ msg = "" /\ raw = 0 /\ value = NoValue
    /\ EqIdle

\* Compile time: the constant VALID_LITERAL is evaluated; a panic aborts the build.
ConstEval ==
    /\ phase = "rewritten"
    /\ LET r == VALID_LITERAL(target, contract, lit, tstr)
       IN  IF r.ok
           THEN /\ phase' = "validated"
                /\ IF contract = "str"
                   THEN valid_str' = r.val /\ valid' = valid
                   ELSE valid' = r.val /\ valid_str' = valid_str
                /\ msg' = msg
           ELSE /\ phase' = "failed"
                /\ msg' = r.msg
                /\ UNCHANGED <<valid, valid_str>>
    /\ UNCHANGED <<target, contract, lit, tstr, raw, value>>
    /\ UNCHANGED eqvars

\* Seeded fault: into_self() built from LIT / Str::STR directly, so that
\* VALID_LITERAL is never evaluated before the value is built.
IntoSelf_unvalidated ==
    /\ phase \in {"rewritten", "validated"}
    /\ \E o \in into_self(target, contract, lit, STR(tstr)) :
          raw' = o.raw /\ value' = o.value
    /\ phase' = "constructed"
    /\ UNCHANGED <<target, contract, lit, tstr, valid, valid_str, msg>>
    /\ UNCHANGED eqvars

\* Run time: into_self() reads VALID_LITERAL and builds the value.
IntoSelf ==
    /\ phase = "validated"
    /\ \E o \in into_self(target, contract, valid, valid_str) :
          raw' = o.raw /\ value' = o.value
    /\ phase' = "constructed"
    /\ UNCHANGED <<target, contract, lit, tstr, valid, valid_str, msg>>
    /\ UNCHANGED eqvars

Next == ConstEval \/ IntoSelf

Spec == Init /\ [][Next]_vars

\* The rewritten expression is evaluated by straight-line code: a build that
\* succeeded is followed by the call of into_self().
FairSpec == Spec /\ WF_vars(IntoSelf)

----------------------------------------------------------------------------
(* const_str_eq as a process *)

CallIdle ==
    /\ target = "none" /\ contract = "none" /\ lit = 0 /\ tstr = TNil
    /\ phase = "idle" /\ valid = 0 /\ valid_str = <<>> /\ msg = ""
    /\ raw = 0 /\ value = NoValue

EqInit ==
    /\ lhs \in StrInputs /\ rhs \in StrInputs
    /\ pc = "entry"
    /\ len = 0 /\ index = 0 /\ result = FALSE /\ reads = <<>> /\ oob = FALSE
    /\ CallIdle

EqEntry ==
    /\ pc = "entry"
    /\ LET st == const_str_eq_entry(lhs, rhs)
       IN  /\ pc' = st.pc /\ result' = st.result /\ len' = st.len
           /\ index' = st.index /\ reads' = st.reads /\ oob' = st.oob
    /\ UNCHANGED <<lhs, rhs>>
    /\ UNCHANGED callvars

EqLoop ==
    /\ pc = "loop"
    /\ LET st == const_str_eq_loop(lhs, rhs,
                    [pc |-> pc, result |-> result, len |-> len, index |-> index,
                     reads |-> reads, oob |-> oob])
       IN  /\ pc' = st.pc /\ result' = st.result /\ len' = st.len
           /\ index' = st.index /\ reads' = st.reads /\ oob' = st.oob
    /\ UNCHANGED <<lhs, rhs>>
    /\ UNCHANGED callvars

EqNext == EqEntry \/ EqLoop

\* A const fn runs to completion: its steps are taken while one is enabled.
EqSpec == EqInit /\ [][EqNext]_vars /\ WF_vars(EqNext)

----------------------------------------------------------------------------
(* Properties *)

\* VALID_LITERAL has been evaluated / was evaluated without a panic.
Evaluated == phase \in {"validated", "failed", "constructed"}
Accepted == phase \in {"validated", "constructed"}

\* The legal range of a primitive integer type of width W, from its definition.
LegalLo(t) == IF t \in PlainSigned THEN -(2 ^ (Width(t) - 1)) ELSE 0
LegalHi(t) == IF t \in PlainSigned THEN 2 ^ (Width(t) - 1) - 1 ELSE 2 ^ Width(t) - 1
InLegalRange(t, L) == LegalLo(t) <= L /\ L <= LegalHi(t)

\* C1: under the unsigned contract a plain signed type of width W accepts a
\* literal L (VALID_LITERAL = L) if 0 <= L <= 2^(W-1)-1 and aborts the build
\* otherwise.
C1_UnsignedContractOnSigned ==
    (contract = "unsigned" /\ target \in PlainSigned /\ Evaluated) =>
        IF 0 <= lit /\ lit <= 2 ^ (Width(target) - 1) - 1
        THEN Accepted /\ valid = lit
        ELSE phase = "failed"

\* C2: under the unsigned contract a plain unsigned type of width W accepts L
\* iff 0 <= L <= 2^W-1, VALID_LITERAL is L, and into_self() returns L.
C2_UnsignedOnUnsigned ==
    (contract = "unsigned" /\ target \in PlainUnsigned /\ Evaluated) =>
        /\ Accepted <=> (0 <= lit /\ lit <= 2 ^ Width(target) - 1)
        /\ Accepted => valid = lit
        /\ ~Accepted => phase = "failed" /\ msg = "Out of range integer literal"
        /\ phase = "constructed" => value = IntValue(lit)

C2_Witness ==
    /\ contract = "unsigned" /\ target = "u8" /\ lit = 255
    /\ phase = "constructed" /\ value.n = 255

\* C3: under the signed contract a plain signed type of width W accepts L iff
\* -2^(W-1) <= L <= 2^(W-1)-1, VALID_LITERAL is L, and into_self() returns L
\* (the narrowing cast does not wrap).
C3_SignedOnSigned ==
    (contract = "signed" /\ target \in PlainSigned /\ Evaluated) =>
        /\ Accepted <=> (-(2 ^ (Width(target) - 1)) <= lit
                            /\ lit <= 2 ^ (Width(target) - 1) - 1)
        /\ Accepted => valid = lit
        /\ ~Accepted => phase = "failed" /\ msg = "Out of range integer literal"
        /\ phase = "constructed" => value = IntValue(lit)

C3_Witness ==
    /\ contract = "signed" /\ target = "i8" /\ lit = -20
    /\ phase = "constructed" /\ value.n = -20

OutOfRangeMsgs == {"Out of range integer literal", "Out of range NonZero integer literal"}

NonZeroConformance ==
    \/ contract = "unsigned" /\ target \in NonZeroUnsigned \cup NonZeroSigned
    \/ contract = "signed" /\ target \in NonZeroSigned

\* C5: a non-zero wrapper accepts L iff L is in the host type's legal range and
\* L # 0; 0 aborts with the zero message (checked first), an out-of-range L
\* aborts with the range message, and into_self() wraps exactly L.
C5_NonZero ==
    (NonZeroConformance /\ Evaluated) =>
        /\ Accepted <=> (InLegalRange(orig_type(target), lit) /\ lit # 0)
        /\ lit = 0 => phase = "failed" /\ msg = "NonZero integer literal was 0"
        /\ (lit # 0 /\ ~InLegalRange(orig_type(target), lit)) =>
              phase = "failed" /\ msg = "Out of range NonZero integer literal"
        /\ Accepted => valid = lit
        /\ phase = "constructed" => value = [kind |-> "NonZero", n |-> lit, s |-> <<>>]

C5_Witness ==
    /\ contract = "unsigned" /\ target = "NonZeroI8" /\ lit = 127
    /\ phase = "constructed" /\ value.kind = "NonZero" /\ value.n = 127

\* C10: in every non-zero conformance, the value narrowed from VALID_LITERAL
\* and handed to new_unchecked is never 0 and equals the literal, so the
\* unchecked constructor is never called outside its precondition.
C10_UncheckedIsSound ==
    (NonZeroConformance /\ phase = "constructed") =>
        /\ raw # 0
        /\ raw = lit
        /\ value.kind # "UB"

C10_Witness ==
    /\ contract = "signed" /\ target = "NonZeroI8" /\ lit = -128
    /\ phase = "constructed" /\ raw = -128

\* C6: Greeting accepts a type-level string iff its content is byte for byte
\* "hello" or "goodbye"; VALID_LITERAL is the content; into_self() yields Hello
\* for "hello", Goodbye for "goodbye" and never reaches unreachable!(); any
\* other content aborts the build.
C6_Greeting ==
    (contract = "str" /\ target = "Greeting" /\ Evaluated) =>
        \A B \in StrInputs : tstr = TList(B) =>
            /\ Accepted <=> (B = hello \/ B = goodbye)
            /\ Accepted => valid_str = B
            /\ ~Accepted => phase = "failed" /\ msg = "Invalid Greeting literal"
            /\ phase = "constructed" =>
                  /\ value.kind # "unreachable"
                  /\ B = hello => value = GreetingValue("Hello")
                  /\ B = goodbye => value = GreetingValue("Goodbye")

C6_Witness ==
    /\ contract = "str" /\ target = "Greeting" /\ tstr = TList(goodbye)
    /\ phase = "constructed" /\ value.kind = "Goodbye"

\* C7: into_self() runs only after VALID_LITERAL of the same site was evaluated
\* without a panic; a failed evaluation is final and no value is ever produced
\* after it; once validation has succeeded into_self() completes with a value.
C7_Step ==
    /\ (phase' = "constructed" /\ phase # "constructed") =>
          /\ phase = "validated"
          /\ msg = ""
          /\ IF contract = "str"
             THEN VALID_LITERAL(target, contract, lit, tstr) = Ok(valid_str)
             ELSE VALID_LITERAL(target, contract, lit, tstr) = Ok(valid)
    /\ phase = "failed" => phase' = "failed" /\ value' = NoValue
    /\ phase = "constructed" => phase' = "constructed" /\ value' = value
    /\ UNCHANGED <<target, contract, lit, tstr>>

C7_State ==
    /\ phase \in {"rewritten", "validated", "failed"} => value = NoValue
    /\ phase = "failed" => msg # ""
    /\ phase = "constructed" =>
          msg = "" /\ value.kind \notin {"none", "UB", "unreachable"}

C7_ValidationPrecedesConstruction ==
    /\ [][C7_Step]_vars
    /\ [](C7_State)
    /\ (phase = "validated") ~> (phase = "constructed")

C7_Witness ==
    /\ contract = "signed" /\ target = "i8" /\ lit = -200
    /\ phase = "failed" /\ msg = "Out of range integer literal" /\ value = NoValue

\* C8: for every byte sequence B, the empty one included, the type-level string
\* built from B projects to exactly B, and the &str and String conformances
\* accept it and return that content unchanged.
C8_RoundTrip ==
    (contract = "str" /\ target \in {"str", "String"} /\ Evaluated) =>
        \A B \in StrInputs : tstr = TList(B) =>
            /\ STR(tstr) = B
            /\ Accepted /\ valid_str = B
            /\ phase = "constructed" =>
                  /\ value.s = B
                  /\ value.kind = target

C8_Witness ==
    /\ contract = "str" /\ target = "String" /\ tstr = TList(hello)
    /\ phase = "constructed" /\ value.s = <<104, 101, 108, 108, 111>>

\* C9: const_str_eq returns true iff the arguments have the same length and
\* the same byte at every index; when the lengths differ it returns false
\* without reading a byte; otherwise it reads the indices 0, 1, ... in
\* increasing order and returns false at the first mismatch; every index it
\* uses is below the length of both slices; it terminates.
SameBytes(l, r) == Len(l) = Len(r) /\ \A i \in 1 .. Len(l) : l[i] = r[i]

C9_State ==
    /\ ~oob
    /\ \A i \in 1 .. Len(reads) :
          reads[i] = i - 1 /\ reads[i] <= Len(lhs) - 1 /\ reads[i] <= Len(rhs) - 1
    /\ pc = "loop" => index <= len /\ len = Len(lhs) /\ Len(reads) = index
                        /\ \A i \in 1 .. index : lhs[i] = rhs[i]
    /\ pc = "done" =>
          /\ result <=> SameBytes(lhs, rhs)
          /\ Len(lhs) # Len(rhs) => reads = <<>>
          /\ (Len(lhs) = Len(rhs) /\ result) => Len(reads) = Len(lhs)
          /\ (Len(lhs) = Len(rhs) /\ ~result) =>
                /\ Len(reads) >= 1
                /\ lhs[Len(reads)] # rhs[Len(reads)]
                /\ \A i \in 1 .. Len(reads) - 1 : lhs[i] = rhs[i]

C9_ConstStrEq == [](C9_State) /\ <>(pc = "done")

C9_Witness ==
    /\ pc = "done" /\ result /\ lhs = hello /\ rhs = hello
    /\ reads = <<0, 1, 2, 3, 4>>

====
